---------------------------- MODULE Spec2Model ----------------------------
(***************************************************************************)
(* goavatar: identicon generation (package goavatar, Make and its options). *)
(*                                                                         *)
(* A Go string is modelled as the sequence of its bytes; Go's 0-based      *)
(* index i is the 1-based index i+1 here.  A color.RGBA is the tuple       *)
(* <<R, G, B, A>>.  An image.RGBA of side n is a sequence of n rows of n   *)
(* colours: pixel (x, y) is img[y+1][x+1].                                 *)
(*                                                                         *)
(* One call of Make is modelled in three phases: the entry (hash and       *)
(* defaults, the initial state), the loop applying the option closures     *)
(* (one action per closure applied), and the rest of the body (the action  *)
(* Make).  A run-time panic of the Go program is the state pc = "panic".   *)
(***************************************************************************)
EXTENDS Integers, Sequences, FiniteSets, TLC

VARIABLES
  pc,       \* "opts": applying options; "done": Make returned; "panic"; "raster"
  input,    \* Make's argument input
  opts,     \* Make's argument opts, the option closures in order
  idx,      \* how many of opts the loop has applied
  hash,     \* Make's local hash
  o,        \* Make's local o, the options being resolved
  prev,     \* history: o before the last option was applied
  img,      \* the image Make returned (<<>>: none)
  calls,    \* history: the drawPixel calls Make made, as <<layer, gridX, gridY>>
  reads,    \* history: the indices of currentHash that Make read, 0-based
  ncall,    \* the number of this call of Make
  saved,    \* history: the first completed call (input, opts, outcome)
  raster    \* the rasterizer on its own: grid size, image size, next cell, rectangles

vars ==
  <<pc, input, opts, idx, hash, o, prev, img, calls, reads, ncall, saved, raster>>

-----------------------------------------------------------------------------
(* Bounds of the model *)

\* options applied in one call, configuration resolver on its own
MaxOpts == 3
\* options applied in one call when the image is generated as well
MaxMakeOpts == 2
\* calls of Make in one behaviour, and options per call, when calls are repeated
MaxCalls == 3
MaxRepeatOpts == 1
\* the rasterizer on its own: grid sizes 1..MaxRasterGrid, image sizes 1..MaxRasterImage
MaxRasterGrid == 5
MaxRasterImage == 7

-----------------------------------------------------------------------------
(* Inputs and the hash *)

\* "test@example.com"
InputTest ==
  <<116, 101, 115, 116, 64, 101, 120, 97, 109, 112, 108, 101, 46, 99, 111, 109>>
\* "custom-bg"
InputCustomBg ==
  <<99, 117, 115, 116, 111, 109, 45, 98, 103>>
\* "a"
InputA ==
  <<97>>

Inputs == {InputTest, InputCustomBg, InputA}

\* crypto/md5 on the strings the model hashes: the three inputs, and the hex
\* digests that layer chaining hashes again (two levels each).
Md5Pairs ==
  { << <<116, 101, 115, 116, 64, 101, 120, 97, 109, 112, 108, 101, 46, 99, 111, 109>>,
       <<85, 80, 47, 64, 220, 139, 124, 118, 152, 128, 177, 8, 116, 171, 201, 208>> >>,
    << <<53, 53, 53, 48, 50, 102, 52, 48, 100, 99, 56, 98, 55, 99, 55, 54, 57, 56, 56, 48, 98, 49, 48, 56, 55, 52, 97, 98, 99, 57, 100, 48>>,
       <<160, 244, 50, 62, 140, 20, 114, 113, 197, 223, 120, 233, 5, 249, 224, 155>> >>,
    << <<97, 48, 102, 52, 51, 50, 51, 101, 56, 99, 49, 52, 55, 50, 55, 49, 99, 53, 100, 102, 55, 56, 101, 57, 48, 53, 102, 57, 101, 48, 57, 98>>,
       <<231, 235, 10, 114, 192, 102, 66, 52, 126, 22, 133, 104, 34, 32, 31, 8>> >>,
    << <<99, 117, 115, 116, 111, 109, 45, 98, 103>>,
       <<211, 6, 238, 138, 153, 194, 130, 147, 130, 126, 206, 165, 162, 243, 171, 93>> >>,
    << <<100, 51, 48, 54, 101, 101, 56, 97, 57, 57, 99, 50, 56, 50, 57, 51, 56, 50, 55, 101, 99, 101, 97, 53, 97, 50, 102, 51, 97, 98, 53, 100>>,
       <<195, 66, 78, 203, 56, 78, 133, 54, 207, 101, 155, 42, 193, 93, 92, 201>> >>,
    << <<99, 51, 52, 50, 52, 101, 99, 98, 51, 56, 52, 101, 56, 53, 51, 54, 99, 102, 54, 53, 57, 98, 50, 97, 99, 49, 53, 100, 53, 99, 99, 57>>,
       <<18, 202, 73, 121, 1, 24, 63, 217, 188, 142, 221, 158, 28, 49, 99, 219>> >>,
    << <<97>>,
       <<12, 193, 117, 185, 192, 241, 182, 168, 49, 195, 153, 226, 105, 119, 38, 97>> >>,
    << <<48, 99, 99, 49, 55, 53, 98, 57, 99, 48, 102, 49, 98, 54, 97, 56, 51, 49, 99, 51, 57, 57, 101, 50, 54, 57, 55, 55, 50, 54, 54, 49>>,
       <<215, 175, 222, 62, 112, 89, 205, 10, 15, 224, 158, 236, 75, 0, 8, 205>> >>,
    << <<100, 55, 97, 102, 100, 101, 51, 101, 55, 48, 53, 57, 99, 100, 48, 97, 48, 102, 101, 48, 57, 101, 101, 99, 52, 98, 48, 48, 48, 56, 99, 100>>,
       <<84, 247, 79, 191, 185, 69, 24, 165, 39, 163, 100, 116, 220, 144, 76, 37>> >> }

\* md5.Sum: the 16 bytes of the digest
Md5Sum(data) == (CHOOSE p \in Md5Pairs : p[1] = data)[2]

\* one hex digit of hex.EncodeToString: "0123456789abcdef"[n]
HexDigit(n) == IF n < 10 THEN 48 + n ELSE 87 + n

\* hex.EncodeToString: two lower-case hex digits per byte, high nibble first
EncodeToString(bytes) ==
  [i \in 1..(2 * Len(bytes)) |->
     IF i % 2 = 1 THEN HexDigit(bytes[(i + 1) \div 2] \div 16)
                  ELSE HexDigit(bytes[i \div 2] % 16)]

\* generateHash: the hex string of the MD5 digest (32 characters)
generateHash(data) == EncodeToString(Md5Sum(data))

-----------------------------------------------------------------------------
(* The options *)

Min(a, b) == IF a < b THEN a ELSE b

Max(a, b) == IF a > b THEN a ELSE b

\* color.RGBA{}: the zero colour
ZeroRGBA == <<0, 0, 0, 0>>

\* mutant of defaultOptions: one options value shared by the calls; from the
\* third call on a call starts from the options the call before left
defaultOptionsShared(h) ==
  IF saved.pc = "none"
    THEN [ size     |-> 64,
           gridSize |-> 8,
           bgColor  |-> <<240, 240, 240, 255>>,
           fgColors |-> << <<h[1], h[2], h[3], 255>> >>,
           layers   |-> 1 ]
    ELSE o

defaultOptions(h) ==
  [ size     |-> 64,
    gridSize |-> 8,
    bgColor  |-> <<240, 240, 240, 255>>,
    fgColors |-> << <<h[1], h[2], h[3], 255>> >>,
    layers   |-> 1 ]

\* mutant of WithSize: the minimum itself is refused
WithSizeAbove(s, opt) == IF s > 64 THEN [opt EXCEPT !.size = s] ELSE opt

WithSize(s, opt) == IF s >= 64 THEN [opt EXCEPT !.size = s] ELSE opt

WithGridSize(g, opt) == IF g > 8 THEN [opt EXCEPT !.gridSize = g] ELSE opt

WithBgColor(c, opt) == [opt EXCEPT !.bgColor = c]

WithFgColor(c, opt) == [opt EXCEPT !.fgColors = <<c>>]

WithLayers(n, opt) == IF n >= 1 /\ n <= 3 THEN [opt EXCEPT !.layers = n] ELSE opt

\* mutant of ExpandFgColors: the list grows with copies of its last colour
ExpandFgColorsCopying(fg, layerIndex) ==
  [k \in 1..Max(Len(fg), layerIndex + 1) |->
     IF k <= Len(fg) THEN fg[k] ELSE fg[Len(fg)]]

\* the loop of WithLayerColor: for len(o.fgColors) <= layerIndex { append zero }
RECURSIVE ExpandFgColors(_, _)
ExpandFgColors(fg, layerIndex) ==
  IF Len(fg) <= layerIndex THEN ExpandFgColors(Append(fg, ZeroRGBA), layerIndex)
                           ELSE fg

\* Go's bounds check of s[i]
InRange(i, s) == 0 <= i /\ i < Len(s)

\* WithLayerColor up to the indexed store; the store panics when the index is
\* out of range, and the slice stays as the loop left it
WithLayerColor(layerIndex, c, opt) ==
  LET fg == ExpandFgColors(opt.fgColors, layerIndex) IN
  IF InRange(layerIndex, fg)
    THEN [opt EXCEPT !.fgColors = [fg EXCEPT ![layerIndex + 1] = c]]
    ELSE [opt EXCEPT !.fgColors = fg]

WithLayerColorPanics(layerIndex, opt) ==
  ~InRange(layerIndex, ExpandFgColors(opt.fgColors, layerIndex))

-----------------------------------------------------------------------------
(* The rasterizer *)

\* int(math.Round(float64(num) / float64(den))) for num >= 0, den > 0:
\* math.Round rounds half away from zero.  (For integers of the sizes of an
\* image the float64 quotient is a half-integer only when num / den is one.)
Round(num, den) == (2 * num + den) \div (2 * den)

\* mutant of PixelRect: every block is one rounded cell size wide and high
PixelRectFixedSize(gridX, gridY, gridSize, imageSize, dx, dy) ==
  [ startX |-> Round(gridX * imageSize, gridSize),
    startY |-> Round(gridY * imageSize, gridSize),
    endX   |-> Min(Round(gridX * imageSize, gridSize) + Round(imageSize, gridSize), dx),
    endY   |-> Min(Round(gridY * imageSize, gridSize) + Round(imageSize, gridSize), dy) ]

\* the bounds drawPixel computes, the upper ones clamped to the image's bounds:
\* the block is [startX, endX) x [startY, endY)
PixelRect(gridX, gridY, gridSize, imageSize, dx, dy) ==
  [ startX |-> Round(gridX * imageSize, gridSize),
    startY |-> Round(gridY * imageSize, gridSize),
    endX   |-> Min(Round((gridX + 1) * imageSize, gridSize), dx),
    endY   |-> Min(Round((gridY + 1) * imageSize, gridSize), dy) ]

\* the 0-based bound v of a loop of drawPixel, cut to a sequence of length n:
\* image.RGBA.Set leaves out a point outside the image
Clip(v, n) == Max(0, Min(v, n))

\* the row with c set at the 0-based columns [start, end)
FillRow(row, start, end, c) ==
  LET lo == Clip(start, Len(row))
      hi == Max(lo, Clip(end, Len(row)))
  IN SubSeq(row, 1, lo) \o [i \in 1..(hi - lo) |-> c] \o SubSeq(row, hi + 1, Len(row))

\* drawPixel: img.Set(x, y, c) for every (x, y) of the block
drawPixel(image, gridX, gridY, c, gridSize, imageSize) ==
  LET r  == PixelRect(gridX, gridY, gridSize, imageSize, Len(image), Len(image))
      lo == Clip(r.startY, Len(image))
      hi == Max(lo, Clip(r.endY, Len(image)))
  IN SubSeq(image, 1, lo)
       \o [i \in 1..(hi - lo) |-> FillRow(image[lo + i], r.startX, r.endX, c)]
       \o SubSeq(image, hi + 1, Len(image))

\* image.NewRGBA(image.Rect(0, 0, size, size)) filled with bg by draw.Draw
NewImage(size, bg) == [y \in 1..size |-> [x \in 1..size |-> bg]]

-----------------------------------------------------------------------------
(* Make, after the options: the layers *)

\* (currentHash[y] >> (x % 8)) & 1 == 1
PixelOn(h, y, x) == (h[y + 1] \div (2 ^ (x % 8))) % 2 = 1

\* color.RGBA{currentHash[0], currentHash[1], currentHash[2], 255}
HashColor(h) == <<h[1], h[2], h[3], 255>>

\* mutant of LayerColor: a zero colour in the list is used as it is
LayerColorAsListed(l, h, opt) ==
  IF l < Len(opt.fgColors) THEN opt.fgColors[l + 1] ELSE HashColor(h)

\* the colour of layer l
LayerColor(l, h, opt) ==
  IF l < Len(opt.fgColors)
    THEN IF opt.fgColors[l + 1] = ZeroRGBA THEN HashColor(h) ELSE opt.fgColors[l + 1]
    ELSE HashColor(h)

\* the indices of currentHash that choosing the colour of layer l reads
ColorReads(l, opt) ==
  IF l < Len(opt.fgColors) /\ opt.fgColors[l + 1] # ZeroRGBA THEN {} ELSE {0, 1, 2}

\* one call of drawPixel by layer l
Draw(acc, l, gridX, gridY, c, opt) ==
  [acc EXCEPT !.img = drawPixel(@, gridX, gridY, c, opt.gridSize, opt.size),
              !.calls = @ \cup {<<l, gridX, gridY>>}]

\* for x := 0; x < o.gridSize/2; x++  (a panic ends every loop)
RECURSIVE ColumnLoop(_, _, _, _, _, _, _)
ColumnLoop(acc, x, y, l, c, h, opt) ==
  IF acc.panic \/ x >= opt.gridSize \div 2 THEN acc
  ELSE ColumnLoop(
         IF PixelOn(h, y, x)
           THEN Draw(Draw(acc, l, x, y, c, opt), l, opt.gridSize - 1 - x, y, c, opt)
           ELSE acc,
         x + 1, y, l, c, h, opt)

\* mutant of CentreColumn: the centre column of an odd grid is never drawn
CentreColumnSkipped(acc, y, l, c, h, opt) == acc

\* the centre column, if isOdd
CentreColumn(acc, y, l, c, h, opt) ==
  IF opt.gridSize % 2 # 0
    THEN LET mid == opt.gridSize \div 2 IN
         IF PixelOn(h, y, mid) THEN Draw(acc, l, mid, y, c, opt) ELSE acc
    ELSE acc

\* for y := 0; y < o.gridSize; y++.  The body reads currentHash[y] (gridSize
\* is at least 8, so the column loop runs): out of range, the call panics
RECURSIVE RowLoop(_, _, _, _, _, _)
RowLoop(acc, y, l, c, h, opt) ==
  IF acc.panic \/ y >= opt.gridSize THEN acc
  ELSE IF ~InRange(y, h) THEN [acc EXCEPT !.panic = TRUE, !.reads = @ \cup {y}]
  ELSE RowLoop(
         CentreColumn(
           ColumnLoop([acc EXCEPT !.reads = @ \cup {y}], 0, y, l, c, h, opt),
           y, l, c, h, opt),
         y + 1, l, c, h, opt)

\* for l := 0; l < o.layers; l++.  h is currentHash as the previous layer left it
RECURSIVE LayerLoop(_, _, _, _)
LayerLoop(acc, l, h, opt) ==
  IF acc.panic \/ l >= opt.layers THEN acc
  ELSE LET currentHash == IF l > 0 THEN generateHash(h) ELSE h IN
       LayerLoop(
         RowLoop([acc EXCEPT !.reads = @ \cup ColorReads(l, opt)],
                 0, l, LayerColor(l, currentHash, opt), currentHash, opt),
         l + 1, currentHash, opt)

\* the body of Make from the blank image on
Layers(h, opt) ==
  LayerLoop([img |-> NewImage(opt.size, opt.bgColor), calls |-> {}, reads |-> {},
             panic |-> FALSE],
            0, h, opt)

-----------------------------------------------------------------------------
(* Arguments the model passes *)

Red   == <<255, 0, 0, 255>>
Green == <<0, 255, 0, 255>>
Blue  == <<0, 0, 255, 255>>

Op(name, n, c) == [name |-> name, n |-> n, c |-> c]

OpsOf(sizes, grids, bgs, fgs, layerCounts, layerIdxs, layerCols) ==
  {Op("WithSize", s, ZeroRGBA) : s \in sizes}
    \cup {Op("WithGridSize", g, ZeroRGBA) : g \in grids}
    \cup {Op("WithBgColor", 0, c) : c \in bgs}
    \cup {Op("WithFgColor", 0, c) : c \in fgs}
    \cup {Op("WithLayers", n, ZeroRGBA) : n \in layerCounts}
    \cup {Op("WithLayerColor", i, c) : i \in layerIdxs, c \in layerCols}

\* the configuration resolver on its own
ResolverOps ==
  OpsOf({63, 64, 512}, {8, 9, 33}, {Red}, {<<10, 20, 30, 255>>, ZeroRGBA},
        {0, 2, 3, 4}, {-1, 0, 2}, {Green})

\* with the image generated
MakeOps ==
  OpsOf({66}, {9, 33}, {Red}, {<<10, 20, 30, 255>>}, {2, 3}, {1}, {Green, ZeroRGBA})

\* with calls repeated
RepeatOps == OpsOf({}, {}, {}, {Blue}, {2}, {}, {})

SeqsUpTo(S, n) == UNION {[1..k -> S] : k \in 0..n}

NoRaster == [gridSize |-> 0, imageSize |-> 0, next |-> 0, rects |-> <<>>]
NoCall   == [input |-> <<>>, opts |-> <<>>, pc |-> "none", img |-> <<>>]

-----------------------------------------------------------------------------
(* Make, entry: hash := generateHash(input); o := defaultOptions(hash) *)

Enter(in, os) ==
  /\ input = in
  /\ opts = os
  /\ idx = 0
  /\ hash = generateHash(in)
  /\ o = defaultOptions(hash)
  /\ prev = o
  /\ pc = "opts"
  /\ img = <<>>
  /\ calls = {}
  /\ reads = {}

Init ==
  /\ saved = NoCall
  /\ ncall = 1
  /\ raster = NoRaster
  /\ \E in \in Inputs : \E os \in SeqsUpTo(ResolverOps, MaxOpts) : Enter(in, os)

InitMake ==
  /\ saved = NoCall
  /\ ncall = 1
  /\ raster = NoRaster
  /\ \E in \in Inputs : \E os \in SeqsUpTo(MakeOps, MaxMakeOpts) : Enter(in, os)

InitRepeat ==
  /\ saved = NoCall
  /\ ncall = 1
  /\ raster = NoRaster
  /\ \E in \in Inputs : \E os \in SeqsUpTo(RepeatOps, MaxRepeatOpts) : Enter(in, os)

(* Make, the loop over opts: opt(&o) for the next option *)

NextOpt == opts[idx + 1]

\* the loop is at an option called name
At(name) == pc = "opts" /\ idx < Len(opts) /\ NextOpt.name = name

\* what every step of the loop does besides changing o
Step ==
  /\ prev' = o
  /\ idx' = idx + 1
  /\ UNCHANGED <<input, opts, hash, img, calls, reads, ncall, saved, raster>>

ApplyWithSize ==
  /\ At("WithSize")
  /\ o' = WithSize(NextOpt.n, o)
  /\ pc' = "opts"
  /\ Step

ApplyWithGridSize ==
  /\ At("WithGridSize")
  /\ o' = WithGridSize(NextOpt.n, o)
  /\ pc' = "opts"
  /\ Step

ApplyWithBgColor ==
  /\ At("WithBgColor")
  /\ o' = WithBgColor(NextOpt.c, o)
  /\ pc' = "opts"
  /\ Step

ApplyWithFgColor ==
  /\ At("WithFgColor")
  /\ o' = WithFgColor(NextOpt.c, o)
  /\ pc' = "opts"
  /\ Step

ApplyWithLayers ==
  /\ At("WithLayers")
  /\ o' = WithLayers(NextOpt.n, o)
  /\ pc' = "opts"
  /\ Step

ApplyWithLayerColor ==
  /\ At("WithLayerColor")
  /\ o' = WithLayerColor(NextOpt.n, NextOpt.c, o)
  /\ pc' = IF WithLayerColorPanics(NextOpt.n, o) THEN "panic" ELSE "opts"
  /\ Step

(* Make, the rest of the body: the image is drawn and returned *)

Make ==
  /\ pc = "opts"
  /\ idx = Len(opts)
  /\ LET acc == Layers(hash, o) IN
       /\ pc' = IF acc.panic THEN "panic" ELSE "done"
       /\ img' = IF acc.panic THEN <<>> ELSE acc.img
       /\ calls' = acc.calls
       /\ reads' = acc.reads
  /\ UNCHANGED <<input, opts, idx, hash, o, prev, ncall, saved, raster>>

(* The caller calls Make again: nothing of the call before is kept but the  *)
(* record of the first call.                                               *)

Enter1(in, os) ==
  /\ input' = in
  /\ opts' = os
  /\ idx' = 0
  /\ hash' = generateHash(in)
  /\ o' = defaultOptions(hash')
  /\ prev' = o'
  /\ pc' = "opts"
  /\ img' = <<>>
  /\ calls' = {}
  /\ reads' = {}

CallAgain ==
  /\ pc \in {"done", "panic"}
  /\ ncall < MaxCalls
  /\ ncall' = ncall + 1
  /\ saved' = IF saved = NoCall
                THEN [input |-> input, opts |-> opts, pc |-> pc, img |-> img]
                ELSE saved
  /\ \E in \in Inputs : \E os \in SeqsUpTo(RepeatOps, MaxRepeatOpts) : Enter1(in, os)
  /\ UNCHANGED raster

(* The rasterizer on its own: drawPixel for every cell of a grid *)

InitRaster ==
  /\ saved = NoCall
  /\ ncall = 1
  /\ input = <<>>
  /\ opts = <<>>
  /\ idx = 0
  /\ hash = <<>>
  /\ o = [size |-> 0, gridSize |-> 0, bgColor |-> ZeroRGBA, fgColors |-> <<>>,
          layers |-> 0]
  /\ prev = o
  /\ calls = {}
  /\ reads = {}
  /\ pc = "raster"
  /\ \E g \in 1..MaxRasterGrid : \E s \in 1..MaxRasterImage :
       /\ raster = [gridSize |-> g, imageSize |-> s, next |-> 0, rects |-> <<>>]
       /\ img = NewImage(s, ZeroRGBA)

RasterCell ==
  /\ pc = "raster"
  /\ raster.next < raster.gridSize * raster.gridSize
  /\ LET gridX == raster.next % raster.gridSize
         gridY == raster.next \div raster.gridSize
     IN /\ raster' =
             [raster EXCEPT
                !.next = @ + 1,
                !.rects = Append(@, PixelRect(gridX, gridY, raster.gridSize,
                                              raster.imageSize, Len(img), Len(img)))]
        /\ img' = drawPixel(img, gridX, gridY, <<raster.next + 1, 0, 0, 255>>,
                            raster.gridSize, raster.imageSize)
  /\ UNCHANGED <<pc, input, opts, idx, hash, o, prev, calls, reads, ncall, saved>>

-----------------------------------------------------------------------------
(* Specifications *)

\* the configuration resolver
Next ==
  \/ ApplyWithSize
  \/ ApplyWithGridSize
  \/ ApplyWithBgColor
  \/ ApplyWithFgColor
  \/ ApplyWithLayers
  \/ ApplyWithLayerColor

Spec == Init /\ [][Next]_vars

\* one call of Make
NextMake == Next \/ Make

SpecMake == InitMake /\ [][NextMake]_vars

\* repeated calls of Make
NextRepeat == ApplyWithFgColor \/ ApplyWithLayers \/ Make \/ CallAgain

SpecRepeat == InitRepeat /\ [][NextRepeat]_vars

\* drawPixel over a whole grid
SpecRaster == InitRaster /\ [][RasterCell]_vars

-----------------------------------------------------------------------------
(* Properties of the configuration resolver (specification Spec) *)

\* the option applied last, once one has been applied
LastOpt == opts[idx]

\* opt and before differ in no field but (possibly) the named one
OnlySizeMayDiffer(a, b)     == a = [b EXCEPT !.size = a.size]
OnlyGridSizeMayDiffer(a, b) == a = [b EXCEPT !.gridSize = a.gridSize]
OnlyLayersMayDiffer(a, b)   == a = [b EXCEPT !.layers = a.layers]
OnlyFgColorsMayDiffer(a, b) == a = [b EXCEPT !.fgColors = a.fgColors]

\* v is a valid argument of the override called name
ValidArg(name, v) ==
  CASE name = "WithSize"     -> v >= 64
    [] name = "WithGridSize" -> v > 8
    [] name = "WithLayers"   -> 1 <= v /\ v <= 3

\* the argument of the last valid override called name among those applied,
\* or the default
InForce(name, default) ==
  LET ks == {k \in 1..idx : opts[k].name = name /\ ValidArg(name, opts[k].n)} IN
  IF ks = {} THEN default
  ELSE opts[CHOOSE k \in ks : \A j \in ks : j <= k].n

\* C2: WithSize(v), WithGridSize(v) and WithLayers(v) set their field to v when
\* v is valid (v >= 64; v > 8; 1 <= v <= 3) and change no other field, and leave
\* the options entirely unchanged when v is not valid.  So always size >= 64,
\* gridSize >= 8 and layers is 1, 2 or 3, and each of the three is the value of
\* the last valid override, or the default 64 / 8 / 1.
ValidatedOverridesSetOrIgnore ==
  /\ idx > 0 /\ LastOpt.name = "WithSize" =>
       IF ValidArg("WithSize", LastOpt.n)
         THEN o.size = LastOpt.n /\ OnlySizeMayDiffer(o, prev)
         ELSE o = prev
  /\ idx > 0 /\ LastOpt.name = "WithGridSize" =>
       IF ValidArg("WithGridSize", LastOpt.n)
         THEN o.gridSize = LastOpt.n /\ OnlyGridSizeMayDiffer(o, prev)
         ELSE o = prev
  /\ idx > 0 /\ LastOpt.name = "WithLayers" =>
       IF ValidArg("WithLayers", LastOpt.n)
         THEN o.layers = LastOpt.n /\ OnlyLayersMayDiffer(o, prev)
         ELSE o = prev
  /\ o.size >= 64 /\ o.gridSize >= 8 /\ o.layers \in {1, 2, 3}
  /\ o.size = InForce("WithSize", 64)
  /\ o.gridSize = InForce("WithGridSize", 8)
  /\ o.layers = InForce("WithLayers", 1)

\* C2, its case: an invalid size was ignored after valid overrides took effect
InvalidOverrideIgnored ==
  /\ idx = 3
  /\ LastOpt.name = "WithSize" /\ LastOpt.n = 63
  /\ o.size = 512 /\ o.layers = 3
  /\ prev = o

\* C7: WithLayerColor(i, c) with i >= 0 on the colour list L gives a list of
\* length max(len(L), i+1) whose entry i is c, whose entries j < len(L), j # i,
\* are those of L, and whose entries len(L) <= j < i are the zero colour; no
\* other field of the options changes.
LayerColorGrowsWithSentinels ==
  idx > 0 /\ LastOpt.name = "WithLayerColor" /\ LastOpt.n >= 0 =>
    LET L == prev.fgColors
        i == LastOpt.n
    IN /\ Len(o.fgColors) = Max(Len(L), i + 1)
       /\ o.fgColors[i + 1] = LastOpt.c
       /\ \A j \in 0..(Len(L) - 1) : j # i => o.fgColors[j + 1] = L[j + 1]
       /\ \A j \in Len(L)..(i - 1) : o.fgColors[j + 1] = ZeroRGBA
       /\ OnlyFgColorsMayDiffer(o, prev)

\* C7, its case: WithLayerColor(2, green) on a list of length 1
LayerColorGrewByTwo ==
  /\ idx > 0 /\ LastOpt = Op("WithLayerColor", 2, Green)
  /\ Len(prev.fgColors) = 1
  /\ o.fgColors = <<prev.fgColors[1], ZeroRGBA, Green>>

\* C8: applying an override, whatever its arguments, never panics.
ResolverNeverPanics == pc # "panic"

\* C10: WithFgColor(c) sets the colour of layer 0 to c and changes neither the
\* colour of any layer >= 1 nor any other field of the options.
FgColorKeepsOtherLayers ==
  idx > 0 /\ LastOpt.name = "WithFgColor" =>
    /\ o.fgColors[1] = LastOpt.c
    /\ Len(o.fgColors) = Len(prev.fgColors)
    /\ \A j \in 2..Len(prev.fgColors) : o.fgColors[j] = prev.fgColors[j]
    /\ OnlyFgColorsMayDiffer(o, prev)

-----------------------------------------------------------------------------
(* Properties of the generated image (specification SpecMake) *)

\* bit k of byte b
Bit(b, k) == (b \div (2 ^ k)) % 2

\* the digests of layers 0..n-1: that of layer 0 is the digest of the input,
\* that of layer l > 0 the digest of the digest of layer l-1
RECURSIVE Digests(_)
Digests(n) ==
  IF n = 1 THEN <<generateHash(input)>>
  ELSE LET ds == Digests(n - 1) IN Append(ds, generateHash(ds[n - 1]))

\* the column of the left half (or the centre) that column x mirrors
Folded(x) == Min(x, o.gridSize - 1 - x)

\* layer l (of digest d) is on at the cell (x, y)
PatternOn(d, x, y) == Bit(d[y + 1], Folded(x) % 8) = 1

\* the colour of layer l (of digest d): the caller's, if there is one at index l
\* and it is not the zero colour, else the first three bytes of d with alpha 255
ResolvedColour(d, l) ==
  IF l < Len(o.fgColors) /\ o.fgColors[l + 1] # ZeroRGBA
    THEN o.fgColors[l + 1]
    ELSE <<d[1], d[2], d[3], 255>>

\* the colour of the highest layer of on, the background if on is empty
TopColour(ds, on) ==
  IF on = {} THEN o.bgColor
  ELSE LET l == CHOOSE k \in on : \A j \in on : j <= k IN ResolvedColour(ds[l + 1], l)

\* round(k * size / gridSize): the integer b with b - 1/2 <= k*size/gridSize < b + 1/2
CellBound(k) ==
  CHOOSE b \in 0..o.size :
    /\ 2 * o.gridSize * b - o.gridSize <= 2 * k * o.size
    /\ 2 * k * o.size < 2 * o.gridSize * b + o.gridSize

\* the pixel columns (and rows) of grid column (and row) k, 0-based
CellPixels(k) == CellBound(k)..(Min(CellBound(k + 1), o.size) - 1)

\* C4: when gridSize does not exceed the digest length, Make returns a
\* size x size image in which every pixel of the cell (x, y) has the colour of
\* the highest layer that is on at (x, y), the background colour if none is;
\* the layers' digests are chained and a layer's colour is the caller's unless
\* absent or zero, else taken from the layer's digest.  The top-left pixel has
\* the colour of the last layer whose digest has bit 0 of byte 0 set, else the
\* background colour.
FinalPixelColour ==
  pc \in {"done", "panic"} /\ o.gridSize <= Len(hash) =>
    LET ds == Digests(o.layers)
        G  == o.gridSize
        Ls == 0..(o.layers - 1)
    IN /\ pc = "done"
       /\ Len(img) = o.size
       /\ \A py \in 1..o.size : Len(img[py]) = o.size
       /\ \A x \in 0..(G - 1), y \in 0..(G - 1) :
            LET c == TopColour(ds, {l \in Ls : PatternOn(ds[l + 1], x, y)}) IN
            \A py \in CellPixels(y), px \in CellPixels(x) : img[py + 1][px + 1] = c
       /\ img[1][1] = TopColour(ds, {l \in Ls : Bit(ds[l + 1][1], 0) = 1})

\* C4, its case: two layers are on at one cell, the upper one in a colour the
\* caller gave, on an image whose size the grid does not divide
UpperLayerOverLower ==
  /\ pc = "done"
  /\ o.layers = 2 /\ Len(o.fgColors) = 2 /\ o.fgColors[2] = Green
  /\ \E x \in 0..(o.gridSize - 1), y \in 0..(o.gridSize - 1) :
       /\ <<0, x, y>> \in calls /\ <<1, x, y>> \in calls
       /\ img[CellBound(y) + 1][CellBound(x) + 1] = Green

\* C5: the cells a layer draws are mirror symmetric in every row, for even and
\* odd gridSize, and a cell of the left half (or the centre column of an odd
\* grid) is drawn exactly when bit (x mod 8) of byte y of the layer's digest is 1.
PatternSymmetric ==
  /\ \A c \in calls : <<c[1], o.gridSize - 1 - c[2], c[3]>> \in calls
  /\ pc = "done" =>
       LET ds == Digests(o.layers) IN
       \A l \in 0..(o.layers - 1), y \in 0..(o.gridSize - 1),
          x \in 0..((o.gridSize - 1) \div 2) :
         (<<l, x, y>> \in calls) <=> (Bit(ds[l + 1][y + 1], x % 8) = 1)

\* C5, its case: an odd grid whose centre column is drawn in some row
OddGridCentreDrawn ==
  /\ pc = "done"
  /\ o.gridSize = 9
  /\ \E c \in calls : c[2] = 4

\* C6: the image Make returns is mirror symmetric pixel by pixel.
ImageMirrorSymmetric ==
  pc = "done" =>
    \A py \in 1..o.size, px \in 1..o.size : img[py][px] = img[py][o.size + 1 - px]

\* C9: every index of the digest that Make reads is smaller than its length.
DigestReadsInRange == \A i \in reads : i < Len(hash)

-----------------------------------------------------------------------------
(* Determinism (specification SpecRepeat) *)

\* C1: a call of Make with the input and the options of the first call ends as
\* the first call did, with an image equal to it pixel by pixel, whatever calls
\* were made in between.
SameCallSameImage ==
  pc \in {"done", "panic"} /\ saved.pc # "none"
     /\ saved.input = input /\ saved.opts = opts =>
    /\ pc = saved.pc
    /\ Len(img) = Len(saved.img)
    /\ img = saved.img

\* C1, its case: the third call repeats the first, with an option, and returns
RepeatedCallReturned ==
  /\ ncall = 3 /\ pc = "done"
  /\ saved.input = input /\ saved.opts = opts /\ opts # <<>>
  /\ img = saved.img /\ Len(img) = 64

-----------------------------------------------------------------------------
(* Rasterization (specification SpecRaster) *)

\* the pixel (px, py) is in the block r
InRect(px, py, r) ==
  r.startX <= px /\ px < r.endX /\ r.startY <= py /\ py < r.endY

\* the blocks drawn so far that hold the pixel (px, py)
RectsAt(px, py) == {k \in 1..Len(raster.rects) : InRect(px, py, raster.rects[k])}

\* C3: for positive gridSize and imageSize the blocks of the cells partition
\* the image: no block holds a pixel outside it, no pixel is in two blocks, and
\* once every cell is drawn every pixel is in exactly one block (and was written
\* by that cell).
BlocksPartitionImage ==
  pc = "raster" =>
    LET S == raster.imageSize
        G == raster.gridSize
    IN /\ \A k \in 1..Len(raster.rects) :
            LET r == raster.rects[k] IN
            /\ 0 <= r.startX /\ r.endX <= S
            /\ 0 <= r.startY /\ r.endY <= S
       /\ \A px \in 0..(S - 1), py \in 0..(S - 1) : Cardinality(RectsAt(px, py)) <= 1
       /\ raster.next = G * G =>
            \A px \in 0..(S - 1), py \in 0..(S - 1) :
              /\ Cardinality(RectsAt(px, py)) = 1
              /\ \A k \in RectsAt(px, py) : img[py + 1][px + 1] = <<k, 0, 0, 255>>

\* C3, its case: a grid that does not divide the image, all cells drawn
UnevenGridDrawn ==
  /\ pc = "raster"
  /\ raster.gridSize = 3 /\ raster.imageSize = 7
  /\ raster.next = 9

=============================================================================
